---- MODULE Spec2Model ----
(***************************************************************************)
(* Model of the `list regions` command, cmd/list/region/cmd.go.            *)
(*                                                                         *)
(* run is a straight-line procedure; every statement that calls a          *)
(* collaborator (OCM connection, AWS client, region provider, reporter,    *)
(* tabwriter) or leaves the procedure is one action, and pc is the         *)
(* position of the single goroutine in run.  The results of the            *)
(* collaborators are the inputs of the model and are drawn with \E.        *)
(*                                                                         *)
(* Go semantics that the model keeps:                                      *)
(*   - os.Exit terminates the process at once; deferred functions are NOT  *)
(*     run;                                                                *)
(*   - a return from run, and a panic, both run the deferred function;     *)
(*     a panic that is not recovered ends the process with exit code 2;    *)
(*   - a method call on a nil interface value and a field access through   *)
(*     a nil pointer panic;                                                *)
(*   - a tabwriter holds tab-terminated cells back until Flush.            *)
(***************************************************************************)
EXTENDS Integers, Sequences, FiniteSets, TLC

\* ---------------------------------------------------------------- bounds
\* Longest region list the provider returns in the model.
MaxRegions == 3

\* Identifiers and display names of the regions the provider may return.
RegionIDs == {"us-east-1", "eu-west-1"}
RegionNames == {"Region"}

\* Distinct underlying causes a collaborator may fail with.
Errors == {"E1", "E2"}

\* The Go nil error.
NoErr == "nil"

\* ------------------------------------------------------------ data model
\* A region as seen through its accessors ID(), DisplayName(), Enabled()
\* and SupportsMultiAZ().
Region == [id : RegionIDs, name : RegionNames, enabled : BOOLEAN, multiAZ : BOOLEAN]

RECURSIVE SeqsUpTo(_, _)
SeqsUpTo(S, n) ==
    IF n = 0 THEN {<<>>}
    ELSE LET shorter == SeqsUpTo(S, n - 1)
         IN  shorter \cup {Append(s, x) : s \in {t \in shorter : Len(t) = n - 1}, x \in S}

\* Every region list provider.GetRegions may return.
RegionLists == SeqsUpTo(Region, MaxRegions)

\* fmt's %t verb.
FormatBool(b) == IF b THEN "true" ELSE "false"

\* The header line written by run.
Header == <<"ID", "NAME", "MULTI-AZ SUPPORT">>

\* The line written for one region: "%s\t\t%s\t\t%t\n".
FormatRow(r) == <<r.id, r.name, FormatBool(r.multiAZ)>>

\* Exit codes.
ExitOK == 0
ExitFailure == 1
ExitPanic == 2

\* A reporter call: level, message and the %v argument (NoErr when the
\* message has none).
Report(level, text, cause) == [level |-> level, text |-> text, cause |-> cause]

VARIABLES
    pc,             \* position in run
    flagChanged,    \* cmd.Flags().Changed("multi-az")
    multiAZ,        \* args.multiAZ
    ocmConnection,  \* "unset", "open" or "closed"
    awsClient,      \* "unset", "valid", "nil" or "invalid"
    awsAccessKey,   \* "unset", "valid", "nil" or "invalid"
    err,            \* the variable err of run
    regions,        \* the variable regions of run
    idx,            \* position of the range loop in regions
    writer,         \* lines held by the tabwriter
    stdout,         \* lines written to os.Stdout
    reported,       \* calls made on the reporter, in order
    calls,          \* calls made on the OCM and AWS collaborators, in order
    panicked,       \* a run-time panic is unwinding or has ended the process
    exitCode        \* exit code of the process, meaningful when pc = "done"

vars == <<pc, flagChanged, multiAZ, ocmConnection, awsClient, awsAccessKey, err,
          regions, idx, writer, stdout, reported, calls, panicked, exitCode>>

\* The state when cobra enters run: the flags have been parsed.
Init ==
    /\ pc = "BuildConnection"
    /\ flagChanged \in BOOLEAN
    /\ multiAZ \in BOOLEAN
    /\ ocmConnection = "unset"
    /\ awsClient = "unset"
    /\ awsAccessKey = "unset"
    /\ err = NoErr
    /\ regions = <<>>
    /\ idx = 0
    /\ writer = <<>>
    /\ stdout = <<>>
    /\ reported = <<>>
    /\ calls = <<>>
    /\ panicked = FALSE
    /\ exitCode = ExitOK

\* os.Exit(code): the process ends here, deferred functions do not run.
OsExit(code) ==
    /\ pc' = "done"
    /\ exitCode' = code

\* What a builder or a getter hands back next to a non-nil error: Go's
\* convention is the zero value (nil), but a non-nil unusable value is not
\* excluded by the callers' code.
FailedResults == {"nil", "invalid"}

\* A variant of ConnectionFailure that reports and goes on.
ConnectionFailureNotFatal(e) ==
    /\ reported' = Append(reported, Report("error", "Failed to create OCM connection", e))
    /\ pc' = "BuildAWSClient"
    /\ UNCHANGED <<ocmConnection, exitCode>>

\* if err != nil { Errorf("Failed to create OCM connection: %v", err); os.Exit(1) }
ConnectionFailure(e) ==
    /\ reported' = Append(reported, Report("error", "Failed to create OCM connection", e))
    /\ OsExit(ExitFailure)
    /\ UNCHANGED ocmConnection

\* ocm.NewConnection().Logger(logger).Build() and its error check.
BuildConnection ==
    /\ pc = "BuildConnection"
    /\ calls' = Append(calls, "ocm.Build")
    /\ \/ /\ err' = NoErr
          /\ ocmConnection' = "open"
          /\ pc' = "BuildAWSClient"
          /\ UNCHANGED <<reported, exitCode>>
       \/ \E e \in Errors :
          /\ err' = e
          /\ ConnectionFailure(e)
    /\ UNCHANGED <<flagChanged, multiAZ, awsClient, awsAccessKey, regions, idx,
                   writer, stdout, panicked>>

\* A variant of AWSClientFailure that ends the process as the other
\* failures do.
AWSClientFailureFatal(e) ==
    /\ reported' = Append(reported, Report("error", "Failed to create AWS client", e))
    /\ OsExit(ExitFailure)

\* if err != nil { Errorf("Failed to create AWS client: %v", err) }
AWSClientFailure(e) ==
    /\ reported' = Append(reported, Report("error", "Failed to create AWS client", e))
    /\ pc' = "GetAWSAccessKeys"
    /\ UNCHANGED exitCode

\* aws.NewClient().Logger(logger).Region(aws.DefaultRegion).Build(): a
\* failure is reported and run goes on.
BuildAWSClient ==
    /\ pc = "BuildAWSClient"
    /\ calls' = Append(calls, "aws.Build")
    /\ \/ /\ err' = NoErr
          /\ awsClient' = "valid"
          /\ UNCHANGED reported
          /\ pc' = "GetAWSAccessKeys"
          /\ UNCHANGED exitCode
       \/ \E e \in Errors, c \in FailedResults :
          /\ err' = e
          /\ awsClient' = c
          /\ AWSClientFailure(e)
    /\ UNCHANGED <<flagChanged, multiAZ, ocmConnection, awsAccessKey, regions, idx,
                   writer, stdout, panicked>>

\* if err != nil { Errorf("Failed to get access keys for user '%s': %v", ...) }
AccessKeysFailure(e) ==
    /\ reported' = Append(reported, Report("error", "Failed to get access keys for user", e))
    /\ pc' = "BuildCCS"
    /\ UNCHANGED exitCode

\* awsClient.GetAWSAccessKeys(): the call on a nil client panics before it
\* is issued; a failure is reported and run goes on.
GetAWSAccessKeys ==
    /\ pc = "GetAWSAccessKeys"
    /\ \/ /\ awsClient = "nil"
          /\ panicked' = TRUE
          /\ pc' = "deferred"
          /\ UNCHANGED <<calls, err, awsAccessKey, reported, exitCode>>
       \/ /\ awsClient # "nil"
          /\ calls' = Append(calls, "GetAWSAccessKeys")
          /\ \/ /\ err' = NoErr
                /\ awsAccessKey' = "valid"
                /\ pc' = "BuildCCS"
                /\ UNCHANGED <<reported, exitCode>>
             \/ \E e \in Errors, k \in FailedResults :
                /\ err' = e
                /\ awsAccessKey' = k
                /\ AccessKeysFailure(e)
          /\ UNCHANGED panicked
    /\ UNCHANGED <<flagChanged, multiAZ, ocmConnection, awsClient, regions, idx,
                   writer, stdout>>

\* reporter.Debugf("Fetching regions") and the cluster.CCS literal, which
\* reads awsAccessKey.AccessKeyID: a nil awsAccessKey panics.
BuildCCS ==
    /\ pc = "BuildCCS"
    /\ reported' = Append(reported, Report("debug", "Fetching regions", NoErr))
    /\ \/ /\ awsAccessKey = "nil"
          /\ panicked' = TRUE
          /\ pc' = "deferred"
       \/ /\ awsAccessKey # "nil"
          /\ pc' = "GetRegions"
          /\ UNCHANGED panicked
    /\ UNCHANGED <<flagChanged, multiAZ, ocmConnection, awsClient, awsAccessKey, err,
                   regions, idx, writer, stdout, calls, exitCode>>

\* A variant of FetchFailure that reports and goes on with no regions.
FetchFailureNotFatal(e) ==
    /\ reported' = Append(reported, Report("error", "Failed to fetch regions", e))
    /\ pc' = "WriteHeader"
    /\ UNCHANGED <<regions, exitCode>>

\* if err != nil { Errorf("Failed to fetch regions: %v", err); os.Exit(1) }
FetchFailure(e) ==
    /\ reported' = Append(reported, Report("error", "Failed to fetch regions", e))
    /\ OsExit(ExitFailure)
    /\ UNCHANGED regions

\* provider.GetRegions(ocmClient, "aws", ccs) and its error check.
GetRegions ==
    /\ pc = "GetRegions"
    /\ calls' = Append(calls, "GetRegions")
    /\ \/ \E rs \in RegionLists :
          /\ err' = NoErr
          /\ regions' = rs
          /\ pc' = "CheckEmpty"
          /\ UNCHANGED <<reported, exitCode>>
       \/ \E e \in Errors :
          /\ err' = e
          /\ FetchFailure(e)
    /\ UNCHANGED <<flagChanged, multiAZ, ocmConnection, awsClient, awsAccessKey, idx,
                   writer, stdout, panicked>>

\* A variant of Skipped that compares the flag value whether or not the
\* flag was supplied.
SkippedIgnoringChanged(region) ==
    \/ ~region.enabled
    \/ multiAZ # region.multiAZ

\* A variant of Skipped without the check of the enabled flag.
SkippedKeepingDisabled(region) ==
    flagChanged /\ multiAZ # region.multiAZ

\* The two continue conditions of the loop body.
Skipped(region) ==
    \/ ~region.enabled
    \/ flagChanged /\ multiAZ # region.multiAZ

\* A variant of NoRegions that looks at what the filter leaves.
NoRegionsAfterFilter(rs) ==
    \A k \in 1..Len(rs) : Skipped(rs[k])

\* len(regions) == 0
NoRegions(rs) == Len(rs) = 0

\* A variant of EmptyResult that warns and goes on.
EmptyResultNotFatal ==
    /\ reported' = Append(reported,
           Report("warn", "There are no regions available for this AWS account", NoErr))
    /\ pc' = "WriteHeader"
    /\ UNCHANGED exitCode

\* Warnf("There are no regions available for this AWS account"); os.Exit(1)
EmptyResult ==
    /\ reported' = Append(reported,
           Report("warn", "There are no regions available for this AWS account", NoErr))
    /\ OsExit(ExitFailure)

\* if len(regions) == 0 { Warnf; os.Exit(1) }
CheckEmpty ==
    /\ pc = "CheckEmpty"
    /\ IF NoRegions(regions)
       THEN EmptyResult
       ELSE /\ pc' = "WriteHeader"
            /\ UNCHANGED <<reported, exitCode>>
    /\ UNCHANGED <<flagChanged, multiAZ, ocmConnection, awsClient, awsAccessKey, err,
                   regions, idx, writer, stdout, calls, panicked>>

\* tabwriter.NewWriter(os.Stdout, ...) and the header line.
WriteHeader ==
    /\ pc = "WriteHeader"
    /\ writer' = <<Header>>
    /\ idx' = 1
    /\ pc' = "Loop"
    /\ UNCHANGED <<flagChanged, multiAZ, ocmConnection, awsClient, awsAccessKey, err,
                   regions, stdout, reported, calls, panicked, exitCode>>

\* One iteration of `for _, region := range regions`.
LoopIteration ==
    /\ pc = "Loop"
    /\ idx <= Len(regions)
    /\ writer' = IF Skipped(regions[idx]) THEN writer
                 ELSE Append(writer, FormatRow(regions[idx]))
    /\ idx' = idx + 1
    /\ UNCHANGED <<pc, flagChanged, multiAZ, ocmConnection, awsClient, awsAccessKey, err,
                   regions, stdout, reported, calls, panicked, exitCode>>

\* writer.Flush() after the loop, followed by the return from run.
Flush ==
    /\ pc = "Loop"
    /\ idx > Len(regions)
    /\ stdout' = stdout \o writer
    /\ writer' = <<>>
    /\ pc' = "deferred"
    /\ UNCHANGED <<flagChanged, multiAZ, ocmConnection, awsClient, awsAccessKey, err,
                   regions, idx, reported, calls, panicked, exitCode>>

\* A variant of ProcessExitCode that escalates a failed Close.
ProcessExitCodeCloseFatal(closeErr) ==
    IF panicked THEN ExitPanic
    ELSE IF closeErr # NoErr THEN ExitFailure ELSE ExitOK

\* The deferred function only reports closeErr: after it the process ends
\* with the code of a normal return, or with the code of the panic.
ProcessExitCode(closeErr) == IF panicked THEN ExitPanic ELSE ExitOK

\* The deferred function, run on return and on panic, and the end of the
\* process that follows it.
DeferredClose ==
    /\ pc = "deferred"
    /\ calls' = Append(calls, "Close")
    /\ ocmConnection' = "closed"
    /\ \/ /\ err' = NoErr
          /\ UNCHANGED reported
       \/ \E e \in Errors :
          /\ err' = e
          /\ reported' = Append(reported, Report("error", "Failed to close OCM connection", e))
    /\ pc' = "done"
    /\ exitCode' = ProcessExitCode(err')
    /\ UNCHANGED <<flagChanged, multiAZ, awsClient, awsAccessKey, regions, idx,
                   writer, stdout, panicked>>

Next ==
    \/ BuildConnection
    \/ BuildAWSClient
    \/ GetAWSAccessKeys
    \/ BuildCCS
    \/ GetRegions
    \/ CheckEmpty
    \/ WriteHeader
    \/ LoopIteration
    \/ Flush
    \/ DeferredClose

Spec == Init /\ [][Next]_vars

TypeOK ==
    /\ pc \in {"BuildConnection", "BuildAWSClient", "GetAWSAccessKeys", "BuildCCS",
               "GetRegions", "CheckEmpty", "WriteHeader", "Loop", "deferred", "done"}
    /\ regions \in RegionLists
    /\ idx \in 0..(MaxRegions + 1)
    /\ exitCode \in {ExitOK, ExitFailure, ExitPanic}

\* ------------------------------------------------------------ vocabulary
\* Number of times the collaborator call c has been issued.
Count(c) == Cardinality({k \in DOMAIN calls : calls[k] = c})

\* The reporter was called with this message.
Reported(text) == \E k \in DOMAIN reported : reported[k].text = text

Terminated == pc = "done"
SessionBuilt == ocmConnection # "unset"
SessionBuildFailed == calls # <<>> /\ ocmConnection = "unset"
FetchReturned == Count("GetRegions") = 1 /\ err = NoErr /\ ~Reported("Failed to close OCM connection")
FetchFailed == Reported("Failed to fetch regions")
AWSFailureReported ==
    Reported("Failed to create AWS client") \/ Reported("Failed to get access keys for user")

\* The table for a list of regions: the header, then one line per region.
Table(rs) == <<Header>> \o [k \in 1..Len(rs) |-> FormatRow(rs[k])]

\* The enabled regions of rs, in the order of rs.
EnabledOf(rs) ==
    LET keep(r) == r.enabled
    IN  SelectSeq(rs, keep)

\* The enabled regions of rs whose multi-AZ support is v, in the order of rs.
EnabledWithMultiAZ(rs, v) ==
    LET keep(r) == r.enabled /\ r.multiAZ = v
    IN  SelectSeq(rs, keep)

\* The lines run has produced so far, flushed or not.
Produced == stdout \o writer

\* ---------------------------------------------------------------- claims

\* C1: once the session has been built, Close has been invoked by the time
\* the process has terminated, whichever way run was left.
C1_ClosedOnEveryExit ==
    (Terminated /\ SessionBuilt) => Count("Close") = 1

\* C2: with the multi-az flag not supplied and a non-empty fetched list, the
\* output is the header followed by exactly the enabled regions in fetched
\* order, whatever args.multiAZ holds.
C2_UnsetFlagPrintsEnabled ==
    (~flagChanged /\ Len(regions) > 0 /\ pc \in {"deferred", "done"})
        => stdout = Table(EnabledOf(regions))

C2_Witness ==
    /\ Terminated
    /\ ~flagChanged
    /\ multiAZ
    /\ Len(regions) = 3
    /\ regions[1].enabled /\ ~regions[1].multiAZ
    /\ ~regions[2].enabled
    /\ regions[3].enabled /\ regions[3].multiAZ /\ regions[3].id # regions[1].id
    /\ Len(stdout) = 3

\* C3: with the multi-az flag supplied with value v and a non-empty fetched
\* list, the output is the header followed by exactly the enabled regions
\* whose multi-AZ support is v, in fetched order; and under any flag state
\* every line produced after the header is the line of an enabled region
\* already visited by the loop, with no more lines than enabled regions.
C3_SetFlagPrintsMatching ==
    /\ (flagChanged /\ Len(regions) > 0 /\ pc \in {"deferred", "done"})
          => stdout = Table(EnabledWithMultiAZ(regions, multiAZ))
    /\ \A k \in 2..Len(Produced) :
          \E j \in 1..Len(regions) :
             /\ j < idx
             /\ regions[j].enabled
             /\ Produced[k] = FormatRow(regions[j])
    /\ Len(Produced) > 0 => Len(Produced) - 1 <= Len(EnabledOf(regions))

C3_Witness ==
    /\ Terminated
    /\ flagChanged
    /\ ~multiAZ
    /\ Len(regions) = 3
    /\ regions[1].enabled /\ regions[1].multiAZ
    /\ ~regions[2].enabled /\ ~regions[2].multiAZ
    /\ regions[3].enabled /\ ~regions[3].multiAZ
    /\ stdout = <<Header, FormatRow(regions[3])>>

\* C4: when the fetch returns zero regions the process warns, exits with
\* code 1 and produces nothing of the table.
C4_EmptyFetchFails ==
    /\ (FetchReturned /\ Len(regions) = 0)
          => /\ pc \in {"CheckEmpty", "done"}
             /\ Produced = <<>>
    /\ (Terminated /\ FetchReturned /\ Len(regions) = 0)
          => /\ exitCode = ExitFailure
             /\ reported[Len(reported)] =
                   Report("warn", "There are no regions available for this AWS account", NoErr)

C4_Witness ==
    /\ Terminated
    /\ FetchReturned
    /\ Len(regions) = 0
    /\ exitCode = ExitFailure
    /\ stdout = <<>>

\* C5: when the fetch fails the process reports an error carrying the
\* cause the fetch returned, exits with code 1 and produces nothing of the
\* table.
C5_FetchFailureFails ==
    FetchFailed
        => /\ Terminated
           /\ exitCode = ExitFailure
           /\ err \in Errors
           /\ reported[Len(reported)] = Report("error", "Failed to fetch regions", err)
           /\ calls[Len(calls)] = "GetRegions"
           /\ Produced = <<>>

C5_Witness ==
    /\ Terminated
    /\ FetchFailed
    /\ err = "E2"
    /\ exitCode = ExitFailure
    /\ ~AWSFailureReported

\* C6: when building the session fails the process reports the error and
\* exits with code 1 at once: no AWS client is built, no credential lookup
\* and no region fetch is issued, nothing is printed, Close is not called.
C6_SessionFailureStopsAll ==
    SessionBuildFailed
        => /\ Terminated
           /\ exitCode = ExitFailure
           /\ err \in Errors
           /\ reported = <<Report("error", "Failed to create OCM connection", err)>>
           /\ calls = <<"ocm.Build">>
           /\ awsClient = "unset"
           /\ awsAccessKey = "unset"
           /\ Produced = <<>>

C6_Witness ==
    /\ SessionBuildFailed
    /\ Terminated
    /\ err = "E1"
    /\ exitCode = ExitFailure

\* C7 as stated: every terminated run has issued exactly one credential
\* lookup and exactly one region-list call, the lookup first.
C7_ExactlyOneLookupAndFetch ==
    Terminated
        => /\ Count("GetAWSAccessKeys") = 1
           /\ Count("GetRegions") = 1
           /\ \E a, b \in DOMAIN calls :
                 a < b /\ calls[a] = "GetAWSAccessKeys" /\ calls[b] = "GetRegions"

\* C7 amended: run never issues more than one credential lookup nor more
\* than one region-list call, and a list call always follows the lookup.
\* A terminated run has issued none of them when the session build failed
\* or when the call on a nil AWS client panicked, only the lookup when the
\* read of nil access keys panicked, and exactly one of each otherwise.
C7_LookupAndFetchPerPath ==
    /\ Count("GetAWSAccessKeys") <= 1
    /\ Count("GetRegions") <= 1
    /\ \A b \in DOMAIN calls :
          calls[b] = "GetRegions"
             => \E a \in 1..(b - 1) : calls[a] = "GetAWSAccessKeys"
    /\ Terminated
          => IF ~SessionBuilt \/ (panicked /\ awsClient = "nil")
             THEN Count("GetAWSAccessKeys") = 0 /\ Count("GetRegions") = 0
             ELSE IF panicked
             THEN Count("GetAWSAccessKeys") = 1 /\ Count("GetRegions") = 0
             ELSE Count("GetAWSAccessKeys") = 1 /\ Count("GetRegions") = 1

C7_Witness ==
    /\ Terminated
    /\ SessionBuilt
    /\ ~panicked
    /\ Reported("Failed to create AWS client")
    /\ calls = <<"ocm.Build", "aws.Build", "GetAWSAccessKeys", "GetRegions", "Close">>

\* C8: after a reported failure of the AWS client build or of the
\* credential lookup the run goes on: a terminated run has issued the
\* region fetch and exits with 1 exactly when the fetch failed or returned
\* nothing, and with 0 otherwise.
C8_AWSFailuresNotFatal ==
    (Terminated /\ AWSFailureReported)
        => /\ Count("GetRegions") = 1
           /\ exitCode = IF FetchFailed \/ Len(regions) = 0 THEN ExitFailure ELSE ExitOK

\* C9: a failed Close is only reported: the exit code is the one the
\* process would have had anyway, and on the normal completion path the
\* table is complete on standard output before Close runs and the exit
\* code is 0.
C9_CloseFailureOnlyReported ==
    /\ (Terminated /\ Count("Close") = 1)
          => exitCode = IF panicked THEN ExitPanic ELSE ExitOK
    /\ (pc = "deferred" /\ ~panicked)
          => /\ Count("Close") = 0
             /\ writer = <<>>
             /\ Len(stdout) > 0
             /\ stdout[1] = Header
    /\ (Terminated /\ Reported("Failed to close OCM connection"))
          => /\ reported[Len(reported)] = Report("error", "Failed to close OCM connection", err)
             /\ err \in Errors
             /\ ~panicked => stdout[1] = Header /\ writer = <<>> /\ exitCode = ExitOK

C9_Witness ==
    /\ Terminated
    /\ Reported("Failed to close OCM connection")
    /\ ~panicked
    /\ exitCode = ExitOK
    /\ Len(stdout) = 2

\* C10: emptiness is decided on the fetched list: when at least one region
\* was fetched and the filter removes them all, the output is the header
\* alone, no warning is emitted and the exit code is 0.
C10_AllFilteredIsSuccess ==
    (Terminated /\ Len(regions) > 0 /\ \A k \in 1..Len(regions) : Skipped(regions[k]))
        => /\ stdout = <<Header>>
           /\ \A k \in DOMAIN reported : reported[k].level # "warn"
           /\ exitCode = ExitOK

C10_Witness ==
    /\ Terminated
    /\ Len(regions) = 2
    /\ regions[1].enabled /\ ~regions[1].multiAZ
    /\ ~regions[2].enabled
    /\ flagChanged /\ multiAZ
    /\ stdout = <<Header>>
    /\ exitCode = ExitOK
====
